---- MODULE Spec2Model ----
(***************************************************************************)
(* Model of src/v2/embeddings/openai.rs: the OpenAI embeddings provider.   *)
(* OpenAIConfig::default, OpenAIEmbeddings::new, OpenAIEmbeddings::post    *)
(* and OpenAIEmbeddings::embed, with the remote service as the             *)
(* environment that answers each request.                                  *)
(***************************************************************************)
EXTENDS Integers, Sequences, FiniteSets, TLC

VARIABLES
    env,          \* the process environment's OPENAI_API_KEY entry
    config,       \* the OpenAIConfig value built by the caller (<<>> = none)
    configSource, \* how the caller built it: "", "default" or "literal"
    provider,     \* OpenAIEmbeddings.config (<<>> = no provider built)
    pc,           \* position of the caller / of embed
    panicSite,    \* where the thread panicked ("" = nowhere)
    docs,         \* embed's argument
    i,            \* number of documents the for loop has taken from docs
    embeddings,   \* embed's accumulator
    requests,     \* requests handed to send(), in order, for this embed call
    outcomes,     \* what the network did with each of them, in order
    inflight,     \* indices of requests sent and not yet answered
    result,       \* what embed returned
    prevFailure   \* the failure the previous embed call returned (<<>> = none)

vars == <<env, config, configSource, provider, pc, panicSite, docs, i, embeddings,
          requests, outcomes, inflight, result, prevFailure>>

(***************************************************************************)
(* Bounds                                                                  *)
(***************************************************************************)
MaxDocs == 2

DocTexts == {"a", "b"}

DocLists == UNION {[1..n -> DocTexts] : n \in 0..MaxDocs}

(***************************************************************************)
(* Constants of the source                                                 *)
(***************************************************************************)
OPENAI_EMBEDDINGS_ENDPOINT == "https://api.openai.com/v1/embeddings"

OPENAI_EMBEDDINGS_MODEL == "text-embedding-3-small"

PlaceholderBody == "the exact body that is sent"

(***************************************************************************)
(* The environment variable and std::env::var                              *)
(***************************************************************************)
EnvStates ==
    { [set |-> FALSE, unicode |-> TRUE,  value |-> ""],
      [set |-> TRUE,  unicode |-> FALSE, value |-> ""],
      [set |-> TRUE,  unicode |-> TRUE,  value |-> "sk-env"] }

\* unwrap_or_default in place of expect: an absent variable yields "".
EnvVarOrDefault(e) ==
    [ok |-> TRUE, value |-> IF e.set /\ e.unicode THEN e.value ELSE ""]

\* std::env::var: Err(NotPresent) when unset, Err(NotUnicode) when the value
\* is not valid Unicode, Ok(value) otherwise.
EnvVar(e) ==
    [ok |-> e.set /\ e.unicode, value |-> IF e.set /\ e.unicode THEN e.value ELSE ""]

\* Configurations a caller writes as a struct literal.
LiteralConfigs ==
    { [api_endpoint |-> "http://localhost:8080/embed",
       api_key      |-> "sk-lit",
       model        |-> "custom-model"] }

(***************************************************************************)
(* The request, as reqwest's RequestBuilder assembles it                   *)
(***************************************************************************)
NoJson == [model |-> "", input |-> ""]

EmbeddingRequest(model, input) == [model |-> model, input |-> input]

\* HeaderName: names are case-insensitive and kept in lower case.
HeaderName(n) ==
    CASE n = "Content-Type"  -> "content-type"
      [] n = "Authorization" -> "authorization"
      [] OTHER               -> n

HasHeader(rb, n) == \E k \in DOMAIN rb.headers : rb.headers[k][1] = HeaderName(n)

ClientPost(url) ==
    [method |-> "POST", url |-> url, headers |-> <<>>,
     body |-> [kind |-> "none", text |-> "", json |-> NoJson]]

BuilderBody(rb, text) ==
    [rb EXCEPT !.body = [kind |-> "text", text |-> text, json |-> NoJson]]

BuilderHeader(rb, n, v) ==
    [rb EXCEPT !.headers = Append(@, <<HeaderName(n), v>>)]

\* A json() that keeps a body that was already set.
BuilderJsonKeepBody(rb, v) ==
    [rb EXCEPT !.body = IF @.kind = "none"
                        THEN [kind |-> "json", text |-> "", json |-> v]
                        ELSE @,
               !.headers = IF HasHeader(rb, "Content-Type") THEN @
                           ELSE Append(@, <<"content-type", "application/json">>)]

\* RequestBuilder::json: serialises v, replaces the body, and adds the
\* content type only when none was set.
BuilderJson(rb, v) ==
    [rb EXCEPT !.body = [kind |-> "json", text |-> "", json |-> v],
               !.headers = IF HasHeader(rb, "Content-Type") THEN @
                           ELSE Append(@, <<"content-type", "application/json">>)]

Bearer(key) == "Bearer " \o key

\* The builder chain of post.
BuildRequest(cfg, json_body) ==
    BuilderJson(
      BuilderHeader(
        BuilderHeader(
          BuilderBody(ClientPost(cfg.api_endpoint), PlaceholderBody),
          "Content-Type", "application/json"),
        "Authorization", Bearer(cfg.api_key)),
      json_body)

(***************************************************************************)
(* The remote service's answers                                            *)
(***************************************************************************)
Entry(nums) == [has_embedding |-> TRUE, embedding |-> nums]

EntryWithoutEmbedding == [has_embedding |-> FALSE, embedding |-> <<>>]

JsonObject(has_data, data) == [has_data |-> has_data, data |-> data]

NotJson == [json |-> FALSE, value |-> JsonObject(FALSE, <<>>)]

JsonBody(v) == [json |-> TRUE, value |-> v]

Bodies ==
    { NotJson,
      JsonBody(JsonObject(FALSE, <<>>)),
      JsonBody(JsonObject(TRUE, <<>>)),
      JsonBody(JsonObject(TRUE, <<EntryWithoutEmbedding>>)),
      JsonBody(JsonObject(TRUE, <<Entry(<<1, 16777217>>)>>)),
      JsonBody(JsonObject(TRUE, <<Entry(<<3>>), Entry(<<4>>)>>)),
      JsonBody(JsonObject(TRUE, <<Entry(<<5>>), EntryWithoutEmbedding>>)) }

PassingStatuses == {200, 300}

ErrorStatuses == {401, 500}

Responses ==
    { [transport |-> FALSE, status |-> s, body |-> b] :
          s \in PassingStatuses, b \in Bodies }
    \cup
    { [transport |-> FALSE, status |-> s, body |-> NotJson] : s \in ErrorStatuses }

TransportFailure == [transport |-> TRUE, status |-> 0, body |-> NotJson]

(***************************************************************************)
(* Errors and results                                                      *)
(***************************************************************************)
NoErr == [kind |-> "", status |-> 0, url |-> "", detail |-> ""]

TransportError(url) ==
    [kind |-> "transport", status |-> 0, url |-> url,
     detail |-> "error sending request"]

StatusError(url, status) ==
    [kind |-> "status", status |-> status, url |-> url,
     detail |-> "HTTP status error"]

DecodeError(url) ==
    [kind |-> "decode", status |-> 0, url |-> url,
     detail |-> "error decoding response body"]

ShapeError(detail) ==
    [kind |-> "shape", status |-> 0, url |-> "", detail |-> detail]

NoResult == [tag |-> "None", val |-> <<>>, err |-> NoErr]

Ok(v) == [tag |-> "Ok", val |-> v, err |-> NoErr]

Err(e) == [tag |-> "Err", val |-> <<>>, err |-> e]

(***************************************************************************)
(* Decoding a response: Response::error_for_status, Response::json and     *)
(* serde_json::from_value::<EmbeddingResponse>                             *)
(***************************************************************************)
\* StatusCode::is_client_error() || StatusCode::is_server_error()
IsErrorStatus(status) == status >= 400 /\ status <= 599

\* Response::json::<Value>: fails when the bytes are not JSON.
ResponseJson(body) == [ok |-> body.json, value |-> body.value]

\* A JSON number read as f32: 24 bits of mantissa, ties to even
\* (written for 0 <= n < 2^25, which covers the numbers of Bodies).
ToF32(n) ==
    IF n <= 16777216 THEN n
    ELSE LET q == n \div 2
         IN  IF n % 2 = 0 THEN n
             ELSE IF q % 2 = 0 THEN 2 * q ELSE 2 * (q + 1)

DeserializeVecF32(nums) == [k \in DOMAIN nums |-> ToF32(nums[k])]

\* A deserialiser that defaults a missing embedding to an empty vector.
FromValueDefaulting(v) ==
    IF ~v.has_data
    THEN [ok |-> FALSE, data |-> <<>>, detail |-> "missing field data"]
    ELSE [ok |-> TRUE,
          data |-> [k \in DOMAIN v.data |->
                      [embedding |-> DeserializeVecF32(v.data[k].embedding)]],
          detail |-> ""]

\* from_value::<EmbeddingResponse>: data and every entry's embedding are
\* required; other fields are ignored.
FromValue(v) ==
    IF ~v.has_data
    THEN [ok |-> FALSE, data |-> <<>>, detail |-> "missing field data"]
    ELSE IF \E k \in DOMAIN v.data : ~v.data[k].has_embedding
    THEN [ok |-> FALSE, data |-> <<>>, detail |-> "missing field embedding"]
    ELSE [ok |-> TRUE,
          data |-> [k \in DOMAIN v.data |->
                      [embedding |-> DeserializeVecF32(v.data[k].embedding)]],
          detail |-> ""]

\* Taking the last entry instead of the first.
LastEntryEmbedding(data) == data[Len(data)].embedding

\* body.data[0].embedding.clone()
FirstEntryEmbedding(data) == data[1].embedding

(***************************************************************************)
(* Steps of the for loop                                                   *)
(***************************************************************************)
\* An iterator that does not advance.
SameIndex(n) == n

\* for doc in docs: the iterator moves on by one document.
NextIndex(n) == n + 1

\* send() spawned and not awaited.
PcNotAwaiting == "loop"

\* .send().await: embed is suspended until the exchange ends.
PcAfterSend == "awaiting"

\* An embed that rejects an empty accumulator.
EmbedReturnNonEmpty(embs) ==
    IF embs = <<>> THEN Err(ShapeError("no documents")) ELSE Ok(embs)

\* Ok(embeddings)
EmbedReturn(embs) == Ok(embs)

LastOutcome == outcomes[Len(outcomes)]

CurrentValue == ResponseJson(LastOutcome.body).value

CurrentBody == FromValue(CurrentValue)

Cfg == provider[1]

(***************************************************************************)
(* Initial state and actions                                               *)
(***************************************************************************)
Init ==
    /\ env \in EnvStates
    /\ config = <<>>
    /\ configSource = ""
    /\ provider = <<>>
    /\ pc = "start"
    /\ panicSite = ""
    /\ docs = <<>>
    /\ i = 0
    /\ embeddings = <<>>
    /\ requests = <<>>
    /\ outcomes = <<>>
    /\ inflight = {}
    /\ result = NoResult
    /\ prevFailure = <<>>

\* OpenAIConfig::default()
DefaultConfig ==
    /\ pc = "start"
    /\ configSource' = "default"
    /\ LET key == EnvVar(env)
       IN  IF key.ok
           THEN /\ config' = << [api_endpoint |-> OPENAI_EMBEDDINGS_ENDPOINT,
                                 api_key      |-> key.value,
                                 model        |-> OPENAI_EMBEDDINGS_MODEL] >>
                /\ pc' = "configured"
                /\ UNCHANGED panicSite
           ELSE /\ pc' = "panicked"
                /\ panicSite' = "default"
                /\ UNCHANGED config
    /\ UNCHANGED <<env, provider, docs, i, embeddings, requests, outcomes,
                   inflight, result, prevFailure>>

\* OpenAIConfig { api_endpoint, api_key, model } written by the caller
LiteralConfig ==
    /\ pc = "start"
    /\ \E c \in LiteralConfigs : config' = <<c>>
    /\ configSource' = "literal"
    /\ pc' = "configured"
    /\ UNCHANGED <<env, provider, panicSite, docs, i, embeddings, requests,
                   outcomes, inflight, result, prevFailure>>

\* OpenAIEmbeddings::new(config)
New ==
    /\ pc = "configured"
    /\ provider' = config
    /\ pc' = "ready"
    /\ UNCHANGED <<env, config, configSource, panicSite, docs, i, embeddings, requests,
                   outcomes, inflight, result, prevFailure>>

\* embed(docs): let mut embeddings = Vec::new()
EmbedCall ==
    /\ pc = "ready"
    /\ \E d \in DocLists : docs' = d
    /\ i' = 0
    /\ embeddings' = <<>>
    /\ requests' = <<>>
    /\ outcomes' = <<>>
    /\ result' = NoResult
    /\ pc' = "loop"
    /\ UNCHANGED <<env, config, configSource, provider, panicSite, inflight, prevFailure>>

\* The loop takes the next document, builds the request and sends it.
SendRequest ==
    /\ pc = "loop"
    /\ i < Len(docs)
    /\ LET req == EmbeddingRequest(Cfg.model, docs[i + 1])
       IN  requests' = Append(requests, BuildRequest(Cfg, req))
    /\ inflight' = inflight \cup {Len(requests) + 1}
    /\ i' = NextIndex(i)
    /\ pc' = PcAfterSend
    /\ UNCHANGED <<env, config, configSource, provider, panicSite, docs, embeddings,
                   outcomes, result, prevFailure>>

\* The loop is exhausted: Ok(embeddings)
ReturnOk ==
    /\ pc = "loop"
    /\ i >= Len(docs)
    /\ result' = EmbedReturn(embeddings)
    /\ pc' = "returned"
    /\ UNCHANGED <<env, config, configSource, provider, panicSite, docs, i, embeddings,
                   requests, outcomes, inflight, prevFailure>>

\* .send().await? ends in an error
SendFails ==
    /\ pc = "awaiting"
    /\ outcomes' = Append(outcomes, TransportFailure)
    /\ inflight' = inflight \ {Len(requests)}
    /\ result' = Err(TransportError(Cfg.api_endpoint))
    /\ pc' = "returned"
    /\ UNCHANGED <<env, config, configSource, provider, panicSite, docs, i, embeddings,
                   requests, prevFailure>>

\* .send().await? yields a response
ReceiveResponse ==
    /\ pc = "awaiting"
    /\ \E r \in Responses : outcomes' = Append(outcomes, r)
    /\ inflight' = inflight \ {Len(requests)}
    /\ pc' = "status"
    /\ UNCHANGED <<env, config, configSource, provider, panicSite, docs, i, embeddings,
                   requests, result, prevFailure>>

\* match res.error_for_status()
ErrorForStatus ==
    /\ pc = "status"
    /\ IF IsErrorStatus(LastOutcome.status)
       THEN /\ result' = Err(StatusError(Cfg.api_endpoint, LastOutcome.status))
            /\ pc' = "returned"
       ELSE /\ pc' = "json"
            /\ UNCHANGED result
    /\ UNCHANGED <<env, config, configSource, provider, panicSite, docs, i, embeddings,
                   requests, outcomes, inflight, prevFailure>>

\* Ok(res.json().await?)
ReadJson ==
    /\ pc = "json"
    /\ IF ResponseJson(LastOutcome.body).ok
       THEN /\ pc' = "value"
            /\ UNCHANGED result
       ELSE /\ result' = Err(DecodeError(Cfg.api_endpoint))
            /\ pc' = "returned"
    /\ UNCHANGED <<env, config, configSource, provider, panicSite, docs, i, embeddings,
                   requests, outcomes, inflight, prevFailure>>

\* let body = serde_json::from_value::<EmbeddingResponse>(res)?
ParseBody ==
    /\ pc = "value"
    /\ IF CurrentBody.ok
       THEN /\ pc' = "parsed"
            /\ UNCHANGED result
       ELSE /\ result' = Err(ShapeError(CurrentBody.detail))
            /\ pc' = "returned"
    /\ UNCHANGED <<env, config, configSource, provider, panicSite, docs, i, embeddings,
                   requests, outcomes, inflight, prevFailure>>

\* embeddings.push(body.data[0].embedding.clone())
PushEmbedding ==
    /\ pc = "parsed"
    /\ IF Len(CurrentBody.data) = 0
       THEN /\ pc' = "panicked"
            /\ panicSite' = "embed"
            /\ UNCHANGED embeddings
       ELSE /\ embeddings' = Append(embeddings, FirstEntryEmbedding(CurrentBody.data))
            /\ pc' = "loop"
            /\ UNCHANGED panicSite
    /\ UNCHANGED <<env, config, configSource, provider, docs, i, requests, outcomes,
                   inflight, result, prevFailure>>

\* The caller, holding the provider, calls embed again.
EmbedAgain ==
    /\ pc = "returned"
    /\ prevFailure' = IF result.tag = "Err"
                      THEN << [err |-> result.err, index |-> i] >>
                      ELSE prevFailure
    /\ pc' = "ready"
    /\ UNCHANGED <<env, config, configSource, provider, panicSite, docs, i, embeddings,
                   requests, outcomes, inflight, result>>

Next ==
    \/ DefaultConfig
    \/ LiteralConfig
    \/ New
    \/ EmbedCall
    \/ SendRequest
    \/ ReturnOk
    \/ SendFails
    \/ ReceiveResponse
    \/ ErrorForStatus
    \/ ReadJson
    \/ ParseBody
    \/ PushEmbedding

Spec == Init /\ [][Next]_vars

NextRepeat == Next \/ EmbedAgain

SpecRepeat == Init /\ [][NextRepeat]_vars

(***************************************************************************)
(* Properties                                                              *)
(***************************************************************************)
SuccessStatus(status) == status >= 200 /\ status <= 299

WellFormed(body) ==
    /\ body.json
    /\ body.value.has_data
    /\ \A k \in DOMAIN body.value.data : body.value.data[k].has_embedding

\* A success status and a well-formed body holding at least one result.
GoodOutcome(o) ==
    /\ ~o.transport
    /\ SuccessStatus(o.status)
    /\ WellFormed(o.body)
    /\ Len(o.body.value.data) >= 1

AllGood == \A k \in DOMAIN outcomes : GoodOutcome(outcomes[k])

\* C1: when every request was answered with a success status and a
\* well-formed body holding at least one result, embed does not panic and
\* returns Ok with exactly Len(docs) embeddings, the k-th being the embedding
\* of the first entry of the k-th response (read as f32 numbers).
C1_OrderAndCardinality ==
    /\ (pc = "panicked" /\ panicSite = "embed") => ~AllGood
    /\ (pc = "returned" /\ AllGood) =>
          /\ result.tag = "Ok"
          /\ Len(result.val) = Len(docs)
          /\ Len(outcomes) = Len(docs)
          /\ \A k \in DOMAIN result.val :
                result.val[k] =
                    DeserializeVecF32(outcomes[k].body.value.data[1].embedding)

C1_Witness ==
    /\ pc = "returned"
    /\ result.tag = "Ok"
    /\ Len(docs) = 2
    /\ docs[1] # docs[2]
    /\ AllGood
    /\ Len(outcomes[1].body.value.data) = 2
    /\ Len(outcomes[2].body.value.data) = 1
    /\ result.val = << <<3>>, <<1, 16777216>> >>

NonSuccessOutcome(o) == o.transport \/ ~SuccessStatus(o.status)

\* C2: once the request for the N-th document ended in a transport error or
\* a non-success status, no further request is sent and embed, when it
\* returns, returns a failure.
C2_FailureStopsEmbed ==
    \A k \in DOMAIN outcomes :
        NonSuccessOutcome(outcomes[k]) =>
            /\ Len(requests) = k
            /\ pc = "returned" => result.tag = "Err"

EmptyResultOutcome(o) ==
    /\ ~o.transport
    /\ SuccessStatus(o.status)
    /\ WellFormed(o.body)
    /\ Len(o.body.value.data) = 0

\* C3: embed never ends in a panic, and when a success response with an empty
\* result sequence was received, embed ends by returning a shape error.
C3_EmptyDataIsError ==
    /\ panicSite # "embed"
    /\ (pc \in {"returned", "panicked"} /\ outcomes # <<>>
            /\ EmptyResultOutcome(outcomes[Len(outcomes)])) =>
          /\ pc = "returned"
          /\ result.tag = "Err"
          /\ result.err.kind = "shape"

UnparsableOutcome(o) ==
    /\ ~o.transport
    /\ SuccessStatus(o.status)
    /\ ~WellFormed(o.body)

\* C4: a success response whose body does not parse into the expected shape
\* ends embed at that document: nothing is pushed for it, no later request
\* is sent, embed does not panic and returns a decode or shape error.
C4_UnparsableBodyIsError ==
    \A k \in DOMAIN outcomes :
        UnparsableOutcome(outcomes[k]) =>
            /\ k = Len(requests)
            /\ Len(embeddings) = k - 1
            /\ pc \in {"status", "json", "value", "returned"}
            /\ pc = "returned" =>
                  /\ result.tag = "Err"
                  /\ result.err.kind \in {"decode", "shape"}
                  /\ result.val = <<>>

C4_Witness ==
    /\ pc = "returned"
    /\ Len(outcomes) = 2
    /\ UnparsableOutcome(outcomes[2])
    /\ outcomes[2].body.json
    /\ outcomes[2].body.value.has_data
    /\ result.tag = "Err"
    /\ result.err.detail = "missing field embedding"

\* C5: embed of an empty document list sends no request and returns Ok with
\* an empty list.
C5_EmptyDocs ==
    (docs = <<>> /\ pc \in {"loop", "awaiting", "status", "json", "value",
                            "parsed", "returned"}) =>
        /\ requests = <<>>
        /\ outcomes = <<>>
        /\ inflight = {}
        /\ pc \in {"loop", "returned"}
        /\ pc = "returned" => result = Ok(<<>>)

C5_Witness ==
    /\ pc = "returned"
    /\ docs = <<>>
    /\ result.tag = "Ok"
    /\ result.val = <<>>
    /\ requests = <<>>

DefaultOf(key) ==
    [api_endpoint |-> OPENAI_EMBEDDINGS_ENDPOINT,
     api_key      |-> key,
     model        |-> OPENAI_EMBEDDINGS_MODEL]

DefaultFailed ==
    /\ pc = "panicked"
    /\ panicSite = "default"
    /\ config = <<>>
    /\ provider = <<>>
    /\ requests = <<>>

DefaultSucceeded ==
    /\ panicSite # "default"
    /\ config = << DefaultOf(env.value) >>

\* C6 as stated: the default configuration fails when the variable is unset
\* and succeeds, with the variable's value as the credential, whenever the
\* variable is set.
C6_DefaultConfig_Original ==
    configSource = "default" =>
        /\ ~env.set => DefaultFailed
        /\ env.set => DefaultSucceeded

\* C6 as amended: the default configuration fails when the variable is unset
\* or holds a value that is not valid Unicode; no provider is built and no
\* request is sent in such a run.  It succeeds, with the variable's value as
\* the credential and the fixed endpoint and model, when the variable holds
\* valid Unicode.
C6_DefaultConfig ==
    configSource = "default" =>
        /\ ~env.set => DefaultFailed
        /\ (env.set /\ ~env.unicode) => DefaultFailed
        /\ (env.set /\ env.unicode) => DefaultSucceeded

C6_Witness ==
    /\ configSource = "default"
    /\ ~env.set
    /\ DefaultFailed

\* C7: two failures returned for different document indices differ.
C7_FailureCarriesIndex ==
    (pc = "returned" /\ result.tag = "Err" /\ prevFailure # <<>>) =>
        (prevFailure[1].index # i => prevFailure[1].err # result.err)

InEmbed == pc \in {"loop", "awaiting", "status", "json", "value", "parsed",
                   "returned"}

\* C8: at most one request is in flight, requests follow the input order,
\* and a request is sent only when every earlier response has been received,
\* parsed and its embedding pushed.
C8_Sequential ==
    /\ Cardinality(inflight) <= 1
    /\ inflight \subseteq {Len(requests)}
    /\ InEmbed =>
          /\ Len(requests) <= Len(embeddings) + 1
          /\ Len(requests) <= Len(outcomes) + 1
          /\ \A k \in DOMAIN requests :
                k <= Len(docs) /\ requests[k].body.json.input = docs[k]
          /\ pc = "loop" =>
                /\ inflight = {}
                /\ Len(embeddings) = Len(requests)
                /\ Len(outcomes) = Len(requests)
          /\ pc = "awaiting" => inflight = {Len(requests)}

C8_Witness ==
    /\ pc = "awaiting"
    /\ Len(requests) = 2
    /\ inflight = {2}
    /\ Len(embeddings) = 1
    /\ Len(outcomes) = 1

\* C9: a document is requested at most once: the k-th request is for the
\* k-th document, an Ok return has sent Len(docs) requests, and a failure at
\* the N-th document (the one after the embeddings accumulated so far) has
\* sent N requests.
C9_OneRequestPerDocument ==
    /\ InEmbed =>
          \A k \in DOMAIN requests :
              k <= Len(docs) /\ requests[k].body.json.input = docs[k]
    /\ (pc = "returned" /\ result.tag = "Ok") => Len(requests) = Len(docs)
    /\ ((pc = "returned" /\ result.tag = "Err")
            \/ (pc = "panicked" /\ panicSite = "embed")) =>
          /\ Len(requests) = Len(embeddings) + 1
          /\ Len(requests) = Len(outcomes)

C9_Witness ==
    /\ pc = "returned"
    /\ result.tag = "Err"
    /\ result.err.kind = "status"
    /\ Len(docs) = 2
    /\ Len(requests) = 2
    /\ Len(embeddings) = 1

AuthorizationValues(r) ==
    { r.headers[j][2] : j \in { h \in DOMAIN r.headers :
                                   r.headers[h][1] = "authorization" } }

\* C10: every request sent is a POST to the configured endpoint whose final
\* body is the JSON object of the configured model and that one document,
\* not the placeholder text, with Authorization "Bearer <credential>"; embed
\* leaves the configuration as it was given to new.
C10_RequestShape ==
    InEmbed =>
        /\ provider = config
        /\ \A k \in DOMAIN requests :
              LET r == requests[k]
              IN  /\ r.method = "POST"
                  /\ r.url = config[1].api_endpoint
                  /\ r.body.kind = "json"
                  /\ r.body.text # PlaceholderBody
                  /\ r.body.json = [model |-> config[1].model, input |-> docs[k]]
                  /\ AuthorizationValues(r) = {"Bearer " \o config[1].api_key}

C10_Witness ==
    /\ Len(requests) = 2
    /\ docs[1] # docs[2]
    /\ configSource = "default"
    /\ requests[2].body.json.input = docs[2]

====
